---- MODULE Spec2Model ----
(***************************************************************************)
(* State-machine model of duckdb_acp_slack (src/src/duckdb_acp_slack/      *)
(* __init__.py): the startup routine main, the two Slack event handlers    *)
(* handle_mention and handle_message, and the query executor query_claude  *)
(* with its connection builder get_connection.                             *)
(*                                                                         *)
(* The model follows one user message: Slack delivers it to the app as an   *)
(* app_mention event and as a message event, and Bolt runs the two         *)
(* handlers concurrently.                                                  *)
(*                                                                         *)
(* Two further specifications explore pure computations on their own:     *)
(* TextSpec the prompt extraction of the handlers over the texts of Texts, *)
(* QuerySpec the formatting of a backend result by query_claude.           *)
(*                                                                         *)
(* Strings are sequences: an event text is a sequence of one-character     *)
(* strings, a formatted message is the concatenation of the literal        *)
(* chunks of its f-string with the interpolated sequences.                 *)
(***************************************************************************)
EXTENDS Integers, Sequences, FiniteSets, TLC

\* ------------------------------------------------------------------ bounds
\* Database files given on the command line.
MaxDb == 1
\* Pieces an explored event text is assembled from (TextSpec).
MaxPieces == 4
\* Rows of an explored backend result (QuerySpec).
MaxRows == 2

\* ------------------------------------------------------------------ text
\* Characters of the class [A-Z0-9] that occur in the modelled texts.
IdChars == {"U", "1"}
\* Characters of the class \s that occur in the modelled texts.
WsChars == {" "}

\* Number of characters of s, from position i on, that are in the set cls.
RECURSIVE RunLen(_, _, _)
RunLen(s, i, cls) ==
    IF i <= Len(s) /\ s[i] \in cls THEN 1 + RunLen(s, i + 1, cls) ELSE 0

\* Length of the match of <@[A-Z0-9]+> that starts at position i of s, 0 if
\* there is none. The class excludes ">", so the greedy + never backtracks.
MentionAt(s, i) ==
    IF i + 1 <= Len(s) /\ s[i] = "<" /\ s[i + 1] = "@"
    THEN LET k == RunLen(s, i + 2, IdChars)
         IN  IF k >= 1 /\ i + 2 + k <= Len(s) /\ s[i + 2 + k] = ">"
             THEN k + 3
             ELSE 0
    ELSE 0

\* Length of the match of <@[A-Z0-9]+>\s* at position i of s, 0 if none.
MentionWsAt(s, i) ==
    LET m == MentionAt(s, i)
    IN  IF m = 0 THEN 0 ELSE m + RunLen(s, i + m, WsChars)

\* A mutant of ReSubFrom: re.sub with count=1 (only the first match goes).
RECURSIVE ReSubFirstFrom(_, _)
ReSubFirstFrom(s, i) ==
    IF i > Len(s) THEN << >>
    ELSE LET m == MentionWsAt(s, i)
         IN  IF m > 0 THEN SubSeq(s, i + m, Len(s))
             ELSE << s[i] >> \o ReSubFirstFrom(s, i + 1)

\* re.sub(r"<@[A-Z0-9]+>\s*", "", s) from position i on: every leftmost,
\* non-overlapping match is deleted, the scan resumes after the match, and
\* what was already emitted is never scanned again.
RECURSIVE ReSubFrom(_, _)
ReSubFrom(s, i) ==
    IF i > Len(s) THEN << >>
    ELSE LET m == MentionWsAt(s, i)
         IN  IF m > 0 THEN ReSubFrom(s, i + m)
             ELSE << s[i] >> \o ReSubFrom(s, i + 1)

ReSubMention(s) ==
    ReSubFrom(s, 1)

\* A mutant of ReSearchMention: re.match, which looks at position 0 only.
ReSearchMention_AtStart(s) ==
    MentionAt(s, 1) > 0

\* re.search(r"<@[A-Z0-9]+>", s) finds a match.
ReSearchMention(s) ==
    \E i \in 1..Len(s) : MentionAt(s, i) > 0

\* str.strip(): leading and trailing whitespace removed.
RECURSIVE LStrip(_)
LStrip(s) ==
    IF s /= << >> /\ Head(s) \in WsChars THEN LStrip(Tail(s)) ELSE s

RECURSIVE RStrip(_)
RStrip(s) ==
    IF s /= << >> /\ s[Len(s)] \in WsChars
    THEN RStrip(SubSeq(s, 1, Len(s) - 1))
    ELSE s

Strip(s) ==
    RStrip(LStrip(s))

\* handle_mention: prompt = re.sub(r"<@[A-Z0-9]+>\s*", "", text).strip()
MentionPrompt(text) ==
    Strip(ReSubMention(text))

\* A mutant of MessagePrompt: the text taken as it is, .strip() forgotten.
MessagePrompt_NoStrip(text) ==
    text

\* handle_message: prompt = text.strip()
MessagePrompt(text) ==
    Strip(text)

\* A mutant of EmptyPrompt: the test of the prompt never succeeds.
EmptyPrompt_Never(p) ==
    FALSE

\* handle_mention and handle_message: not prompt
EmptyPrompt(p) ==
    p = << >>

\* ------------------------------------------------------------ formatting
\* str(n) of a natural number: its decimal digits.
Digit(d) ==
    CASE d = 0 -> "0" [] d = 1 -> "1" [] d = 2 -> "2" [] d = 3 -> "3"
      [] d = 4 -> "4" [] d = 5 -> "5" [] d = 6 -> "6" [] d = 7 -> "7"
      [] d = 8 -> "8" [] OTHER -> "9"

RECURSIVE IntStr(_)
IntStr(n) ==
    IF n < 10 THEN << Digit(n) >> ELSE IntStr(n \div 10) \o << Digit(n % 10) >>

\* sep.join(parts)
RECURSIVE Join(_, _)
Join(parts, sep) ==
    IF parts = << >> THEN << >>
    ELSE IF Len(parts) = 1 THEN parts[1]
    ELSE parts[1] \o sep \o Join(Tail(parts), sep)

\* An optional string (str | None).
None == [none |-> TRUE, s |-> << >>]
Some(s) == [none |-> FALSE, s |-> s]
\* Python truthiness of an optional string.
Truthy(o) == ~o.none /\ o.s /= << >>

\* A result value: an integer, a string or NULL.
IntVal(i) == [t |-> "int", i |-> i, s |-> << >>]
StrVal(s) == [t |-> "str", i |-> 0, s |-> s]
NullVal == [t |-> "null", i |-> 0, s |-> << >>]

\* A mutant of CellStr: str(v) for every value, None included.
CellStr_StrOfNone(v) ==
    IF v.t = "null" THEN << "None" >>
    ELSE IF v.t = "int" THEN IntStr(v.i) ELSE v.s

\* query_claude: str(v) if v is not None else ""
CellStr(v) ==
    IF v.t = "null" THEN << >>
    ELSE IF v.t = "int" THEN IntStr(v.i) ELSE v.s

\* query_claude: ",".join(str(v) if v is not None else "" for v in row)
RowLine(row) ==
    Join([j \in 1..Len(row) |-> CellStr(row[j])], << "," >>)

\* query_claude: the CSV of a result with at least one row.
CsvContent(columns, rows) ==
    Join(<< Join(columns, << "," >>) >>
           \o [i \in 1..Len(rows) |-> RowLine(rows[i])],
         << "\n" >>)

\* f"Returned {len(rows)} row(s), {len(columns)} column(s)"
ReturnedText(rows, columns) ==
    << "Returned " >> \o IntStr(Len(rows)) \o << " row(s), " >>
        \o IntStr(Len(columns)) \o << " column(s)" >>

NoResultsText == << "_No results_" >>

\* The grave accent character (it cannot be written in a string here).
Backtick == "<grave>"

\* f"*Error:* {e}", with e between two grave accents
ErrorText(e) ==
    << "*Error:* ", Backtick >> \o e \o << Backtick >>

\* f"Working on: _{prompt}_"
WorkingText(p) ==
    << "Working on: _" >> \o p \o << "_" >>

\* f"*Query:* _{prompt}_\n\n{msg}"
QueryText(p, m) ==
    << "*Query:* _" >> \o p \o << "_", "\n", "\n" >> \o m

InstructionText ==
    << "Please include a question or query after mentioning me." >>

\* ------------------------------------------------------------------ state
VARIABLES
    phase,          \* main: "startup", "listening" or "exited"
    exit_status,    \* the status of typer.Exit, -1 while the process runs
    config,         \* _config, the process-wide dict
    argv,           \* main: the options the process was started with
    slack_app,      \* main: local slack_app, the Bolt app once created
    handler,        \* main: local handler, the socket mode connection
    user_msg,       \* Slack: the user message written, if any
    pc,             \* per handler invocation: where it is
    event,          \* per handler invocation: the event it was called with
    prompt,         \* per handler invocation: local prompt
    ack_response,   \* per handler invocation: local ack_response
    conn,           \* per handler invocation: query_claude's local conn
    answer,         \* per handler invocation: what the backend answered
    msg,            \* per handler invocation: local msg
    csv_content,    \* per handler invocation: local csv_content
    exc,            \* per handler invocation: the exception that ended it
    calls,          \* per handler invocation: the outbound calls it made
    messages,       \* Slack: the messages the bot posted, by posting order
    connections,    \* DuckDB: the connections that are open
    opened,         \* DuckDB: how many connections were ever opened
    sample,         \* a text given to the prompt extraction (TextSpec)
    extracted,      \* what the prompt extraction made of sample (TextSpec)
    result,         \* a backend result given to the executor (QuerySpec)
    returned        \* what the executor returned for result (QuerySpec)

vars ==
    << phase, exit_status, config, argv, slack_app, handler, user_msg, pc,
       event, prompt, ack_response, conn, answer, msg, csv_content, exc, calls,
       messages, connections, opened, sample, extracted, result, returned >>

mainVars ==
    << phase, exit_status, config, argv, slack_app, handler >>

reqVars ==
    << user_msg, pc, event, prompt, ack_response, conn, answer, msg, csv_content, exc,
       calls, messages, connections, opened >>

textVars ==
    << sample, extracted >>

queryVars ==
    << result, returned >>

\* The event types create_app subscribes a handler to.
EventTypes == {"app_mention", "message"}
\* A handler invocation: the delivery of the user message as event r.
Reqs == EventTypes

\* ------------------------------------------------------------ timestamps
NoTs == [by |-> "none", n |-> 0]
\* The timestamp of the user message.
UserTs == [by |-> "user", n |-> 1]
\* The timestamp Slack gives the i-th message the bot posts.
BotTs(i) == [by |-> "bot", n |-> i]
\* The root of an existing thread.
ThreadRootTs == [by |-> "user", n |-> 0]
\* The channels the bot listens to.
Channels == {"C1", "C2"}

\* ------------------------------------------------------------ events
MentionToken == << "<", "@", "U", "1", ">" >>

\* The texts of the delivered events: none, blank, a mention alone, a
\* mention before, after and around a question, and a bare question.
EventTexts ==
    { [has_text |-> FALSE, text |-> << >>],
      [has_text |-> TRUE, text |-> << " " >>],
      [has_text |-> TRUE, text |-> MentionToken \o << " " >>],
      [has_text |-> TRUE, text |-> MentionToken \o << " ", "q" >>],
      [has_text |-> TRUE, text |-> << "q", " " >> \o MentionToken],
      [has_text |-> TRUE, text |-> << " ", "q" >>] }

\* event.get("bot_id") and event.get("subtype"): "None" when absent.
BotIds == {"None", "B1"}
Subtypes == {"None", "message_changed"}

\* What a user (or a bot, or Slack itself) may write in the channel.
UserMessages ==
    { [written |-> TRUE, has_text |-> t.has_text, text |-> t.text,
       bot_id |-> b, subtype |-> st, channel |-> ch, thread_ts |-> th] :
        t \in EventTexts, b \in BotIds, st \in Subtypes, ch \in Channels,
        th \in {NoTs, ThreadRootTs} }

NoMessage ==
    [written |-> FALSE, has_text |-> FALSE, text |-> << >>, bot_id |-> "None",
     subtype |-> "None", channel |-> "", thread_ts |-> NoTs]

\* The event that delivers the user message to the handler of r.
Event(r) ==
    [type |-> r, has_text |-> user_msg.has_text, text |-> user_msg.text,
     bot_id |-> user_msg.bot_id, subtype |-> user_msg.subtype,
     channel |-> user_msg.channel, ts |-> UserTs,
     thread_ts |-> user_msg.thread_ts]

NoEvent ==
    [type |-> "none", has_text |-> FALSE, text |-> << >>, bot_id |-> "None",
     subtype |-> "None", channel |-> "", ts |-> NoTs,
     thread_ts |-> NoTs]

\* Mutants of Ignored: one of the two tests forgotten.
Ignored_BotOnly(e) ==
    e.bot_id /= "None"

Ignored_SubtypeOnly(e) ==
    e.subtype /= "None"

\* handle_message: event.get("bot_id") or event.get("subtype")
Ignored(e) ==
    e.bot_id /= "None" \/ e.subtype /= "None"

\* event.get("text", "")
EventText(e) == IF e.has_text THEN e.text ELSE << >>
\* A mutant of EventThread: the event's thread_ts is not looked at.
EventThread_OwnTs(e) == e.ts
\* event.get("thread_ts", ts)
EventThread(e) == IF e.thread_ts = NoTs THEN e.ts ELSE e.thread_ts

\* ------------------------------------------------------------ call log
Call(api, channel, ts, thread_ts, text, ok) ==
    [api |-> api, channel |-> channel, ts |-> ts, thread_ts |-> thread_ts,
     text |-> text, filename |-> "", title |-> "", ok |-> ok]

NoException == [type |-> "none", at |-> "none"]
NoAnswer == [raises |-> FALSE, err |-> << >>, columns |-> << >>,
             rows |-> << >>, given |-> FALSE]

\* ------------------------------------------------------------ backend
\* What the backend may answer to the CLAUDE command: an exception with a
\* text, a result without rows, a result with rows.
BackendAnswers ==
    { [raises |-> TRUE, err |-> << "Parser Error" >>, columns |-> << >>,
       rows |-> << >>, given |-> TRUE],
      [raises |-> FALSE, err |-> << >>, columns |-> << << "a" >>, << "b" >> >>,
       rows |-> << >>, given |-> TRUE],
      [raises |-> FALSE, err |-> << >>, columns |-> << << "a" >>, << "b" >> >>,
       rows |-> << << IntVal(1), StrVal(<< "x" >>) >>,
                   << IntVal(2), NullVal >> >>,
       given |-> TRUE] }

\* _config.get(key, default)
ConfigGet(key, default) ==
    IF key \in DOMAIN config THEN config[key] ELSE default

\* The statements of get_connection that may raise, given _config:
\* duckdb.connect(), INSTALL, LOAD, one ATTACH per configured database, and
\* the init SQL when there is one.
ConnectionSteps ==
    {"connect", "INSTALL", "LOAD"}
        \cup (IF DOMAIN ConfigGet("databases", << >>) /= {} THEN {"ATTACH"} ELSE {})
        \cup (IF Truthy(ConfigGet("init_sql", None)) THEN {"init_sql"} ELSE {})

\* ------------------------------------------------------------ startup
Tokens == {"None", "", "xoxb"}
\* A path given on the command line: the stem of its name, and whether the
\* file exists.
DbPaths == [stem : 1..MaxDb, exists : BOOLEAN]
DbArgs == UNION { [1..n -> DbPaths] : n \in 0..MaxDb }
\* --init-sql: not given, a missing file, an empty file, a file with SQL.
InitSqlArgs ==
    { [given |-> FALSE, exists |-> FALSE, content |-> << >>],
      [given |-> TRUE, exists |-> FALSE, content |-> << >>],
      [given |-> TRUE, exists |-> TRUE, content |-> << >>],
      [given |-> TRUE, exists |-> TRUE, content |-> << "SET x = 1;" >>] }

\* main: databases[path.stem] = str(path), in the order of the list
RECURSIVE Databases(_)
Databases(db) ==
    IF db = << >> THEN << >>
    ELSE LET rest == Databases(SubSeq(db, 1, Len(db) - 1))
             last == db[Len(db)]
         IN  [k \in DOMAIN rest \cup {last.stem} |->
                 IF k = last.stem THEN last ELSE rest[k]]

\* The process has not been started yet.
NoArgv ==
    [bot_token |-> "None", app_token |-> "None", db |-> << >>,
     init_sql |-> [given |-> FALSE, exists |-> FALSE, content |-> << >>]]

Exit(status) ==
    /\ phase' = "exited"
    /\ exit_status' = status
    /\ UNCHANGED << config, slack_app, handler >>

\* A mutant of main: the test of lines 227-229 forgotten, a missing init
\* SQL file is taken for an empty one.
main_NoInitSqlTest(bot_token, app_token, db, init_sql) ==
    /\ phase = "startup"
    /\ IF bot_token \in {"None", ""} THEN Exit(1)
       ELSE IF app_token \in {"None", ""} THEN Exit(1)
       ELSE IF \E i \in 1..Len(db) : ~db[i].exists THEN Exit(1)
       ELSE /\ config' = [databases |-> Databases(db),
                          init_sql |-> IF init_sql.given
                                       THEN Some(init_sql.content)
                                       ELSE None]
            /\ slack_app' = "App"
            /\ handler' = "connected"
            /\ phase' = "listening"
            /\ UNCHANGED exit_status
    /\ argv' = [bot_token |-> bot_token, app_token |-> app_token, db |-> db,
                init_sql |-> init_sql]
    /\ UNCHANGED reqVars
    /\ UNCHANGED << textVars, queryVars >>

main(bot_token, app_token, db, init_sql) ==
    /\ phase = "startup"
    /\ IF bot_token \in {"None", ""} THEN Exit(1)
       ELSE IF app_token \in {"None", ""} THEN Exit(1)
       ELSE IF \E i \in 1..Len(db) : ~db[i].exists THEN Exit(1)
       ELSE IF init_sql.given /\ ~init_sql.exists THEN Exit(1)
       ELSE /\ config' = [databases |-> Databases(db),
                          init_sql |-> IF init_sql.given
                                       THEN Some(init_sql.content)
                                       ELSE None]
            /\ slack_app' = "App"
            /\ handler' = "connected"
            /\ phase' = "listening"
            /\ UNCHANGED exit_status
    /\ argv' = [bot_token |-> bot_token, app_token |-> app_token, db |-> db,
                init_sql |-> init_sql]
    /\ UNCHANGED reqVars
    /\ UNCHANGED << textVars, queryVars >>

\* ------------------------------------------------------------ handlers
\* A message is written in a channel the bot listens to.
user_message(m) ==
    /\ phase = "listening"
    /\ user_msg = NoMessage
    /\ user_msg' = m
    /\ UNCHANGED << pc, event, prompt, ack_response, conn, answer, msg,
                    csv_content, exc, calls, messages, connections, opened >>
    /\ UNCHANGED mainVars
    /\ UNCHANGED << textVars, queryVars >>

\* Bolt calls the handler of r with the event of the written message, once.
CanStart(r, type) ==
    /\ phase = "listening"
    /\ r = type
    /\ user_msg /= NoMessage
    /\ pc[r] = "idle"

Log(r, c) ==
    calls' = [calls EXCEPT ![r] = Append(@, c)]

\* An exception leaves the handler: Bolt logs it, the invocation is over.
Raise(r, type, at) ==
    /\ pc' = [pc EXCEPT ![r] = "raised"]
    /\ exc' = [exc EXCEPT ![r] = [type |-> type, at |-> at]]

\* Slack stores a message the bot posted and returns its timestamp.
Post(channel, thread_ts, text) ==
    messages' = Append(messages,
                       [channel |-> channel, thread_ts |-> thread_ts,
                        text |-> text])

\* A mutant of handle_mention: no try around reactions_add (lines 85-88), so
\* a failed reaction leaves the handler as an exception.
handle_mention_ReactionRaises(r) ==
    LET e == Event(r)
        p == MentionPrompt(EventText(e))
    IN  /\ CanStart(r, "app_mention")
        /\ event' = [event EXCEPT ![r] = e]
        /\ prompt' = [prompt EXCEPT ![r] = p]
        /\ \E reacted \in BOOLEAN :
             /\ calls' = [calls EXCEPT
                             ![r] = << Call("reactions_add", e.channel, e.ts,
                                            NoTs, << "eyes" >>, reacted) >>
                                    \o (IF reacted /\ EmptyPrompt(p)
                                        THEN << Call("say", e.channel, NoTs,
                                                     EventThread(e),
                                                     InstructionText, TRUE) >>
                                        ELSE << >>)]
             /\ IF ~reacted
                THEN /\ Raise(r, "SlackApiError", "reactions_add")
                     /\ UNCHANGED messages
                ELSE IF EmptyPrompt(p)
                THEN /\ Post(e.channel, EventThread(e), InstructionText)
                     /\ pc' = [pc EXCEPT ![r] = "done"]
                     /\ UNCHANGED exc
                ELSE /\ pc' = [pc EXCEPT ![r] = "ack"]
                     /\ UNCHANGED << exc, messages >>
        /\ UNCHANGED << user_msg, ack_response, conn, answer, msg,
                        csv_content, connections, opened >>
        /\ UNCHANGED mainVars
        /\ UNCHANGED << textVars, queryVars >>

\* handle_mention, lines 80-98: the reaction (its failure is swallowed), the
\* prompt, and the reply to an empty prompt.
handle_mention(r) ==
    LET e == Event(r)
        text == EventText(e)
        channel == e.channel
        ts == e.ts
        thread_ts == EventThread(e)
        p == MentionPrompt(text)
    IN  /\ CanStart(r, "app_mention")
        /\ event' = [event EXCEPT ![r] = e]
        /\ prompt' = [prompt EXCEPT ![r] = p]
        /\ \E reacted \in BOOLEAN, ok \in BOOLEAN :
             LET reaction ==
                     Call("reactions_add", channel, ts, NoTs, << "eyes" >>,
                          reacted)
                 reply ==
                     Call("say", channel, NoTs, thread_ts, InstructionText, ok)
             IN  IF EmptyPrompt(p)
                 THEN /\ calls' = [calls EXCEPT ![r] = << reaction, reply >>]
                      /\ IF ok
                         THEN /\ Post(channel, thread_ts, InstructionText)
                              /\ pc' = [pc EXCEPT ![r] = "done"]
                              /\ UNCHANGED exc
                         ELSE /\ Raise(r, "SlackApiError", "say")
                              /\ UNCHANGED messages
                 ELSE /\ ok  \* no reply is sent: one outcome stands for both
                      /\ calls' = [calls EXCEPT ![r] = << reaction >>]
                      /\ pc' = [pc EXCEPT ![r] = "ack"]
                      /\ UNCHANGED << exc, messages >>
        /\ UNCHANGED << user_msg, ack_response, conn, answer, msg,
                        csv_content, connections, opened >>
        /\ UNCHANGED mainVars
        /\ UNCHANGED << textVars, queryVars >>

\* handle_message, lines 130-143: the three early returns and the prompt.
handle_message(r) ==
    LET e == Event(r)
        text == EventText(e)
        p == MessagePrompt(text)
    IN  /\ CanStart(r, "message")
        /\ event' = [event EXCEPT ![r] = e]
        /\ IF Ignored(e)
           THEN /\ pc' = [pc EXCEPT ![r] = "done"]
                /\ UNCHANGED prompt
           ELSE IF ReSearchMention(text)
           THEN /\ pc' = [pc EXCEPT ![r] = "done"]
                /\ UNCHANGED prompt
           ELSE /\ prompt' = [prompt EXCEPT ![r] = p]
                /\ pc' = [pc EXCEPT
                             ![r] = IF EmptyPrompt(p) THEN "done" ELSE "ack"]
        /\ UNCHANGED << user_msg, ack_response, conn, answer, msg,
                        csv_content, exc, calls, messages, connections,
                        opened >>
        /\ UNCHANGED mainVars
        /\ UNCHANGED << textVars, queryVars >>

\* What the steps after the start leave alone.
StepFrame ==
    /\ UNCHANGED mainVars
    /\ UNCHANGED << user_msg, event, prompt >>
    /\ UNCHANGED << textVars, queryVars >>

\* client.chat_postMessage(channel, thread_ts, "Working on: _prompt_") of
\* the handler `type`; ack_response is what Slack returns.
PostAck(r, type) ==
    LET channel == event[r].channel
        thread_ts == EventThread(event[r])
        text == WorkingText(prompt[r])
    IN  /\ pc[r] = "ack"
        /\ event[r].type = type
        /\ \E ok \in BOOLEAN :
             /\ Log(r, Call("chat_postMessage", channel, NoTs, thread_ts,
                            text, ok))
             /\ IF ok
                THEN /\ Post(channel, thread_ts, text)
                     /\ ack_response' =
                            [ack_response EXCEPT
                                ![r] = [ts |-> BotTs(Len(messages) + 1)]]
                     /\ pc' = [pc EXCEPT ![r] = "query"]
                     /\ UNCHANGED exc
                ELSE /\ Raise(r, "SlackApiError", "chat_postMessage")
                     /\ UNCHANGED << messages, ack_response >>
        /\ UNCHANGED << conn, answer, msg, csv_content, connections, opened >>
        /\ StepFrame

\* handle_mention, lines 102-106
handle_mention_post(r) ==
    PostAck(r, "app_mention")

\* handle_message, lines 147-151
handle_message_post(r) ==
    PostAck(r, "message")

\* ------------------------------------------------------------ executor
\* A mutant of get_connection: the init SQL is taken out of _config when it
\* is run (a pop where line 42 reads), so only the first call runs it.
get_connection_PopInitSql(r) ==
    /\ pc[r] = "query"
    /\ Log(r, Call("query_claude", event[r].channel, NoTs, NoTs, prompt[r],
                   TRUE))
    /\ opened' = opened + 1
    /\ connections' = connections \cup {opened + 1}
    /\ conn' = [conn EXCEPT ![r] = opened + 1]
    /\ pc' = [pc EXCEPT ![r] = "execute"]
    /\ config' = [config EXCEPT !.init_sql = None]
    /\ UNCHANGED << phase, exit_status, argv, slack_app, handler >>
    /\ UNCHANGED << ack_response, answer, msg, csv_content, messages, exc >>
    /\ UNCHANGED << user_msg, event, prompt >>
    /\ UNCHANGED << textVars, queryVars >>

\* query_claude, line 49: conn = get_connection(), outside the try block.
\* get_connection opens a connection and runs its statements; when one of
\* them raises, the exception leaves get_connection, query_claude and the
\* handler, and nothing closes the connection that was opened.
get_connection(r) ==
    /\ pc[r] = "query"
    /\ Log(r, Call("query_claude", event[r].channel, NoTs, NoTs, prompt[r],
                   TRUE))
    /\ \E failing \in ConnectionSteps \cup {"none"} :
         IF failing = "connect"
         THEN /\ Raise(r, "duckdb.Error", failing)
              /\ UNCHANGED << conn, connections, opened >>
         ELSE /\ opened' = opened + 1
              /\ connections' = connections \cup {opened + 1}
              /\ conn' = [conn EXCEPT ![r] = opened + 1]
              /\ IF failing = "none"
                 THEN /\ pc' = [pc EXCEPT ![r] = "execute"]
                      /\ UNCHANGED exc
                 ELSE Raise(r, "duckdb.Error", failing)
    /\ UNCHANGED << ack_response, answer, msg, csv_content, messages >>
    /\ StepFrame

\* A mutant of QueryResult: the test of lines 56-57 forgotten, a result
\* without rows is formatted like any other.
QueryResult_NoEmptyTest(a) ==
    IF a.raises THEN [msg |-> ErrorText(a.err), csv |-> None]
    ELSE [msg |-> ReturnedText(a.rows, a.columns),
          csv |-> Some(CsvContent(a.columns, a.rows))]

\* A mutant of QueryResult: the pair of the last call is kept in a module
\* global and returned again by the calls that follow.
QueryResult_Cached(a) ==
    IF \E r \in Reqs : answer[r].given
    THEN LET r == CHOOSE q \in Reqs : answer[q].given
         IN  [msg |-> msg[r], csv |-> csv_content[r]]
    ELSE IF a.raises THEN [msg |-> ErrorText(a.err), csv |-> None]
    ELSE IF a.rows = << >> THEN [msg |-> NoResultsText, csv |-> None]
    ELSE [msg |-> ReturnedText(a.rows, a.columns),
          csv |-> Some(CsvContent(a.columns, a.rows))]

\* query_claude, lines 52-69: what the try block returns for an answer of
\* the backend to f"CLAUDE {prompt};".
QueryResult(a) ==
    IF a.raises THEN [msg |-> ErrorText(a.err), csv |-> None]
    ELSE IF a.rows = << >> THEN [msg |-> NoResultsText, csv |-> None]
    ELSE [msg |-> ReturnedText(a.rows, a.columns),
          csv |-> Some(CsvContent(a.columns, a.rows))]

\* query_claude, lines 51-71: the try block, and conn.close() in finally.
query_claude(r) ==
    /\ pc[r] = "execute"
    /\ \E a \in BackendAnswers :
         /\ answer' = [answer EXCEPT ![r] = a]
         /\ msg' = [msg EXCEPT ![r] = QueryResult(a).msg]
         /\ csv_content' = [csv_content EXCEPT ![r] = QueryResult(a).csv]
    /\ connections' = connections \ {conn[r]}
    /\ pc' = [pc EXCEPT ![r] = "update"]
    /\ UNCHANGED << ack_response, conn, exc, calls, messages, opened >>
    /\ StepFrame

\* ------------------------------------------------------------ resolution
\* client.chat_update(channel, ts=ack_response["ts"], "*Query:* ...") of the
\* handler `type`, and the test of csv_content that follows it.
Update(r, type) ==
    LET channel == event[r].channel
        target == ack_response[r].ts
        text == QueryText(prompt[r], msg[r])
    IN  /\ pc[r] = "update"
        /\ event[r].type = type
        /\ \E ok \in BOOLEAN :
             /\ Log(r, Call("chat_update", channel, target, NoTs, text, ok))
             /\ IF ok
                THEN /\ messages' = [messages EXCEPT ![target.n].text = text]
                     /\ pc' = [pc EXCEPT
                                  ![r] = IF Truthy(csv_content[r])
                                         THEN "upload" ELSE "done"]
                     /\ UNCHANGED exc
                ELSE /\ Raise(r, "SlackApiError", "chat_update")
                     /\ UNCHANGED messages
        /\ UNCHANGED << ack_response, conn, answer, msg, csv_content,
                        connections, opened >>
        /\ StepFrame

\* handle_mention, lines 110-116
handle_mention_update(r) ==
    Update(r, "app_mention")

\* handle_message, lines 155-161
handle_message_update(r) ==
    Update(r, "message")

\* client.files_upload_v2(channel, thread_ts, content, "results.csv",
\* "Query Results") of the handler `type`.
Upload(r, type) ==
    LET channel == event[r].channel
        thread_ts == EventThread(event[r])
        upload == [Call("files_upload_v2", channel, NoTs, thread_ts,
                        csv_content[r].s, TRUE)
                     EXCEPT !.filename = "results.csv",
                            !.title = "Query Results"]
    IN  /\ pc[r] = "upload"
        /\ event[r].type = type
        /\ \E ok \in BOOLEAN :
             /\ Log(r, [upload EXCEPT !.ok = ok])
             /\ IF ok
                THEN /\ pc' = [pc EXCEPT ![r] = "done"]
                     /\ UNCHANGED exc
                ELSE Raise(r, "SlackApiError", "files_upload_v2")
        /\ UNCHANGED << ack_response, conn, answer, msg, csv_content,
                        messages, connections, opened >>
        /\ StepFrame

\* handle_mention, lines 117-123
handle_mention_upload(r) ==
    Upload(r, "app_mention")

\* A mutant of handle_message_upload: the copy of the upload in
\* handle_message is missing, the handler logs and returns.
handle_message_upload_Missing(r) ==
    /\ pc[r] = "upload"
    /\ event[r].type = "message"
    /\ pc' = [pc EXCEPT ![r] = "done"]
    /\ UNCHANGED << ack_response, conn, answer, msg, csv_content, exc, calls,
                    messages, connections, opened >>
    /\ StepFrame

\* handle_message, lines 162-168
handle_message_upload(r) ==
    Upload(r, "message")

\* ------------------------------------------------------------ prompt extraction alone
\* The pieces the explored texts are assembled from.
Pieces ==
    { MentionToken, << "<" >>, << "@" >>, << "U" >>, << ">" >>, << " " >>,
      << "q" >> }

RECURSIVE Concat(_)
Concat(ps) ==
    IF ps = << >> THEN << >> ELSE Head(ps) \o Concat(Tail(ps))

Texts ==
    { Concat(ps) : ps \in UNION { [1..n -> Pieces] : n \in 0..MaxPieces } }

NotExtracted ==
    [done |-> FALSE, mention_prompt |-> << >>, message_prompt |-> << >>,
     has_mention |-> FALSE]

\* The text computations of the two handlers, applied to sample.
extract_prompt ==
    /\ ~extracted.done
    /\ extracted' = [done |-> TRUE,
                     mention_prompt |-> MentionPrompt(sample),
                     message_prompt |-> MessagePrompt(sample),
                     has_mention |-> ReSearchMention(sample)]
    /\ UNCHANGED sample
    /\ UNCHANGED queryVars
    /\ UNCHANGED mainVars
    /\ UNCHANGED reqVars

\* ------------------------------------------------------------ result formatting alone
\* result.description: the column lists of the explored results, by name.
ColumnLists ==
    { << >>, << << "a" >> >>, << << "a" >>, << "b" >> >>,
      << << "b" >>, << "b" >> >> }

\* The values of the explored results: integers, strings (one holding a
\* comma, one holding a newline) and NULL.
Values ==
    { IntVal(1), IntVal(2), StrVal(<< "x" >>), StrVal(<< "y", ",", "z" >>),
      StrVal(<< "u", "\n", "v" >>), NullVal }

\* result.fetchall() for the given columns: n rows, each as wide as the
\* column list.
RowLists(columns, n) ==
    [1..n -> [1..Len(columns) -> Values]]

\* conn.execute(f"CLAUDE {prompt};") raises.
RaisingResult ==
    [raises |-> TRUE, err |-> << "Parser Error" >>, columns |-> << >>,
     rows |-> << >>, given |-> TRUE]

\* conn.execute(f"CLAUDE {prompt};") gives a result.
Result(columns, rows) ==
    [raises |-> FALSE, err |-> << >>, columns |-> columns, rows |-> rows,
     given |-> TRUE]

NotReturned ==
    [done |-> FALSE, msg |-> << >>, csv |-> None]

\* The try block of query_claude, applied to result.
format_result ==
    /\ ~returned.done
    /\ returned' = [done |-> TRUE, msg |-> QueryResult(result).msg,
                    csv |-> QueryResult(result).csv]
    /\ UNCHANGED result
    /\ UNCHANGED textVars
    /\ UNCHANGED mainVars
    /\ UNCHANGED reqVars

\* ------------------------------------------------------------ specification
Init ==
    /\ phase = "startup"
    /\ exit_status = -1
    /\ config = << >>
    /\ argv = NoArgv
    /\ slack_app = "None"
    /\ handler = "None"
    /\ user_msg = NoMessage
    /\ pc = [r \in Reqs |-> "idle"]
    /\ event = [r \in Reqs |-> NoEvent]
    /\ prompt = [r \in Reqs |-> << >>]
    /\ ack_response = [r \in Reqs |-> [ts |-> NoTs]]
    /\ conn = [r \in Reqs |-> 0]
    /\ answer = [r \in Reqs |-> NoAnswer]
    /\ msg = [r \in Reqs |-> << >>]
    /\ csv_content = [r \in Reqs |-> None]
    /\ exc = [r \in Reqs |-> NoException]
    /\ calls = [r \in Reqs |-> << >>]
    /\ messages = << >>
    /\ connections = {}
    /\ opened = 0
    /\ sample = << >>
    /\ extracted = NotExtracted
    /\ result = NoAnswer
    /\ returned = NotReturned

Next ==
    \/ \E bot_token \in Tokens, app_token \in Tokens, db \in DbArgs,
          init_sql \in InitSqlArgs :
         main(bot_token, app_token, db, init_sql)
    \/ \E m \in UserMessages : user_message(m)
    \/ \E r \in Reqs : handle_mention(r)
    \/ \E r \in Reqs : handle_message(r)
    \/ \E r \in Reqs : handle_mention_post(r)
    \/ \E r \in Reqs : handle_message_post(r)
    \/ \E r \in Reqs : get_connection(r)
    \/ \E r \in Reqs : query_claude(r)
    \/ \E r \in Reqs : handle_mention_update(r)
    \/ \E r \in Reqs : handle_message_update(r)
    \/ \E r \in Reqs : handle_mention_upload(r)
    \/ \E r \in Reqs : handle_message_upload(r)

Spec ==
    Init /\ [][Next]_vars

\* The prompt extraction on its own, over every text of Texts.
TextInit ==
    /\ Init!1 /\ Init!2 /\ Init!3 /\ Init!4 /\ Init!5 /\ Init!6 /\ Init!7
    /\ Init!8 /\ Init!9 /\ Init!10 /\ Init!11 /\ Init!12 /\ Init!13
    /\ Init!14 /\ Init!15 /\ Init!16 /\ Init!17 /\ Init!18 /\ Init!19
    /\ Init!20 /\ Init!23 /\ Init!24
    /\ sample \in Texts
    /\ extracted = NotExtracted

TextNext ==
    extract_prompt

TextSpec ==
    TextInit /\ [][TextNext]_vars

\* The formatting of the executor on its own, over a raising command and
\* every result of up to MaxRows rows over the column lists.
QueryInit ==
    /\ Init!1 /\ Init!2 /\ Init!3 /\ Init!4 /\ Init!5 /\ Init!6 /\ Init!7
    /\ Init!8 /\ Init!9 /\ Init!10 /\ Init!11 /\ Init!12 /\ Init!13
    /\ Init!14 /\ Init!15 /\ Init!16 /\ Init!17 /\ Init!18 /\ Init!19
    /\ Init!20 /\ Init!21 /\ Init!22
    /\ \/ result = RaisingResult
       \/ \E columns \in ColumnLists, n \in 0..MaxRows :
             \E rows \in RowLists(columns, n) :
                 result = Result(columns, rows)
    /\ returned = NotReturned

QueryNext ==
    format_result

QuerySpec ==
    QueryInit /\ [][QueryNext]_vars

\* ------------------------------------------------------------ properties
Started(r) == pc[r] /= "idle"
\* The handler has returned or an exception has left it.
Ended(r) == pc[r] \in {"done", "raised"}
\* The request was accepted: its extracted prompt is not empty.
Accepted(r) == Started(r) /\ prompt[r] /= << >>
\* The outbound calls of r other than the reaction, in the order made.
Effects(r) == SelectSeq(calls[r], LAMBDA c : c.api /= "reactions_add")
\* The calls of r to the given API.
CallsTo(r, api) == SelectSeq(calls[r], LAMBDA c : c.api = api)
\* No chat API call of r failed.
ChatSucceeded(r) == exc[r].type /= "SlackApiError"
\* The placeholder r posted shows the query and the summary.
Resolved(r) ==
    /\ ack_response[r].ts /= NoTs
    /\ messages[ack_response[r].ts.n].text = QueryText(prompt[r], msg[r])

\* C1: every accepted request whose handler has ended (no chat API call
\* having failed) made exactly one acknowledgement post "Working on: prompt",
\* then exactly one backend call, then exactly one edit of the message the
\* post returned, with "Query: prompt", a blank line and the summary, then at
\* most one upload.
C1_SideEffectsInOrder ==
    \A r \in Reqs :
        (Accepted(r) /\ Ended(r) /\ ChatSucceeded(r)) =>
            LET e == Effects(r)
            IN  /\ Len(e) \in {3, 4}
                /\ e[1].api = "chat_postMessage"
                /\ e[1].text = WorkingText(prompt[r])
                /\ e[2].api = "query_claude"
                /\ e[3].api = "chat_update"
                /\ e[3].ts = ack_response[r].ts
                /\ e[3].text = QueryText(prompt[r], msg[r])
                /\ Len(e) = 4 => e[4].api = "files_upload_v2"

\* C2: an exception raised by the backend work of a request (connecting,
\* loading the extension, attaching, the init statements, the CLAUDE command)
\* never leaves the executor: no handler is ended by a backend exception, and
\* a failed command yields the error summary with the failure's text and no
\* CSV.
C2_FailureRecovered ==
    \A r \in Reqs :
        /\ exc[r].type /= "duckdb.Error"
        /\ (answer[r].given /\ answer[r].raises) =>
               /\ msg[r] = ErrorText(answer[r].err)
               /\ csv_content[r] = None

\* C3: a connection opened by an executor call is closed when the call has
\* ended, and no connection is open while no request is in flight.
C3_ConnectionsClosed ==
    /\ \A r \in Reqs :
           pc[r] \in {"update", "upload", "done", "raised"} =>
               conn[r] \notin connections
    /\ (\A r \in Reqs : pc[r] = "idle" \/ Ended(r)) => connections = {}

\* C4: an accepted request does not stay acknowledged: when its handler has
\* ended and no chat API call failed, the placeholder has been edited to show
\* the query and a summary.
C4_EndsResolved ==
    \A r \in Reqs :
        (Accepted(r) /\ Ended(r) /\ ChatSucceeded(r)) => Resolved(r)

\* The text holds a mention token somewhere: "<@", one or more characters
\* of [A-Z0-9], ">".
HasMentionToken(s) ==
    \E i \in 1..Len(s), j \in 1..Len(s) :
        /\ j >= i + 3
        /\ s[i] = "<" /\ s[i + 1] = "@" /\ s[j] = ">"
        /\ \A k \in (i + 2)..(j - 1) : s[k] \in IdChars

\* The text without its leading mention token and the whitespace after it.
AfterLeadingMention(s) ==
    SubSeq(s, MentionWsAt(s, 1) + 1, Len(s))

\* How often the character c occurs in s.
Count(s, c) ==
    Cardinality({i \in 1..Len(s) : s[i] = c})

ThreadOf(e) == IF e.thread_ts /= NoTs THEN e.thread_ts ELSE e.ts
\* The event is bot-authored or carries a subtype.
Flagged(e) == e.bot_id /= "None" \/ e.subtype /= "None"
\* The event has no text, or nothing but whitespace.
Blank(e) == ~e.has_text \/ \A i \in 1..Len(e.text) : e.text[i] \in WsChars
\* r made no acknowledgement post, no reply and no backend call.
NoReplyNoBackend(r) ==
    /\ CallsTo(r, "chat_postMessage") = << >>
    /\ CallsTo(r, "say") = << >>
    /\ CallsTo(r, "query_claude") = << >>
\* r did nothing at all and has returned.
DidNothing(r) ==
    /\ calls[r] = << >>
    /\ pc[r] = "done"
    /\ conn[r] = 0
    /\ ack_response[r].ts = NoTs

\* C6: a mention event whose prompt is empty gets exactly one instructional
\* reply, in the thread of the original message, and nothing else: no
\* acknowledgement post, no backend call, no connection, no edit, no upload.
C6_EmptyMentionGetsOneReply ==
    \A r \in Reqs :
        (r = "app_mention" /\ Started(r) /\ prompt[r] = << >>) =>
            /\ Len(CallsTo(r, "say")) = 1
            /\ CallsTo(r, "say")[1].text = InstructionText
            /\ CallsTo(r, "say")[1].channel = event[r].channel
            /\ CallsTo(r, "say")[1].thread_ts = ThreadOf(event[r])
            /\ Len(Effects(r)) = 1
            /\ conn[r] = 0
            /\ Ended(r)

C6_Witness ==
    \E r \in Reqs :
        /\ r = "app_mention" /\ pc[r] = "done" /\ prompt[r] = << >>
        /\ event[r].text = MentionToken \o << " " >>
        /\ event[r].thread_ts /= NoTs
        /\ Len(CallsTo(r, "say")) = 1

\* C7 as stated: no event with bot_id or a subtype, of either kind, leads to
\* an acknowledgement post, a reply or a backend call.
C7_BothKindsFiltered ==
    \A r \in Reqs :
        (Started(r) /\ Flagged(event[r])) => NoReplyNoBackend(r)

\* C7 as amended: the filter is applied to plain message events only. No
\* message event with bot_id or a subtype leads to a post, a reply or a
\* backend call; a mention event with bot_id or a subtype is handled as any
\* mention event is: it gets the reply (empty prompt) or the acknowledgement.
C7_OnlyMessageKindFiltered ==
    /\ \A r \in Reqs :
           (r = "message" /\ Started(r) /\ Flagged(event[r])) =>
               NoReplyNoBackend(r)
    /\ \A r \in Reqs :
           (r = "app_mention" /\ Started(r) /\ Flagged(event[r])) =>
               IF prompt[r] = << >>
               THEN Len(CallsTo(r, "say")) = 1
               ELSE pc[r] = "ack" \/ Len(CallsTo(r, "chat_postMessage")) = 1

\* A bot-authored mention event that was acknowledged and went to the
\* backend, next to the message event of the same message, which was dropped.
C7_Witness ==
    /\ Flagged(event["app_mention"])
    /\ Len(CallsTo("app_mention", "chat_postMessage")) = 1
    /\ Len(CallsTo("app_mention", "query_claude")) = 1
    /\ Flagged(event["message"])
    /\ ~Blank(event["message"])
    /\ pc["message"] = "done"

\* C8: for a plain message event with bot_id set or with a subtype the
\* handler does nothing: no reaction, post, edit, upload or backend call,
\* whatever the text.
C8_FlaggedMessageIgnored ==
    \A r \in Reqs :
        (r = "message" /\ Started(r) /\ Flagged(event[r])) => DidNothing(r)

C8_Witness ==
    \E r \in Reqs :
        /\ r = "message" /\ pc[r] = "done"
        /\ event[r].bot_id /= "None" /\ event[r].subtype = "None"
        /\ ~Blank(event[r]) /\ ~HasMentionToken(event[r].text)
        /\ calls[r] = << >>

\* C9: for a user message whose text holds a mention token anywhere, the
\* plain-message handler does nothing, so the two deliveries of the message
\* together make at most one acknowledgement and one backend call.
C9_MentionTextHandledOnce ==
    HasMentionToken(user_msg.text) =>
        LET a == "app_mention"
            m == "message"
        IN  /\ Started(m) => DidNothing(m)
            /\ Len(CallsTo(a, "chat_postMessage"))
                 + Len(CallsTo(m, "chat_postMessage")) <= 1
            /\ Len(CallsTo(a, "query_claude"))
                 + Len(CallsTo(m, "query_claude")) <= 1

\* A message with a token after its question, not flagged, delivered both
\* ways: the mention handler has finished the request, the message handler
\* has returned.
C9_Witness ==
    /\ MentionAt(user_msg.text, 1) = 0
    /\ HasMentionToken(user_msg.text)
    /\ ~Flagged(event["message"])
    /\ pc["message"] = "done"
    /\ pc["app_mention"] = "done"
    /\ Len(CallsTo("app_mention", "query_claude")) = 1

\* C10: a plain message event whose text is missing or blank gets no reply
\* and no backend call (the handler does nothing), while the mention handler
\* answers such an event with the instructional reply.
C10_BlankMessageIgnored ==
    \A r \in Reqs :
        (Started(r) /\ Blank(event[r])) =>
            IF r = "message"
            THEN DidNothing(r)
            ELSE Len(CallsTo(r, "say")) = 1

C10_Witness ==
    /\ user_msg.has_text
    /\ user_msg.text /= << >>
    /\ Blank(event["message"])
    /\ ~Flagged(event["message"])
    /\ pc["message"] = "done"
    /\ Len(CallsTo("app_mention", "say")) = 1

\* The last outbound call r made.
LastCall(r) == calls[r][Len(calls[r])]
\* The backend call of r succeeded and gave at least one row.
GaveRows(r) ==
    answer[r].given /\ ~answer[r].raises /\ answer[r].rows /= << >>

\* C11: for an accepted request whose handler has ended (no chat API call
\* having failed), a file was uploaded if and only if the executor returned a
\* CSV, which is so if and only if the backend call succeeded with at least
\* one row; without a CSV (zero rows, a backend failure) the request ended
\* after the edit, with no upload; the upload went to the channel and the
\* thread of the acknowledgement, as results.csv, with the CSV as content.
C11_UploadIffCsv ==
    \A r \in Reqs :
        (Accepted(r) /\ Ended(r) /\ ChatSucceeded(r)) =>
            LET ups == CallsTo(r, "files_upload_v2")
                ack == CallsTo(r, "chat_postMessage")[1]
            IN  /\ Len(ups) = (IF csv_content[r] /= None THEN 1 ELSE 0)
                /\ (csv_content[r] /= None) <=> GaveRows(r)
                /\ csv_content[r] = None =>
                       LastCall(r).api = "chat_update"
                /\ Len(ups) = 1 =>
                       /\ LastCall(r) = ups[1]
                       /\ ups[1].channel = ack.channel
                       /\ ups[1].thread_ts = ack.thread_ts
                       /\ ups[1].filename = "results.csv"
                       /\ ups[1].text = csv_content[r].s

\* The result is one the backend gave without raising.
Succeeded(a) == a.given /\ ~a.raises

\* C12: when the backend call succeeds with zero rows, the executor returns
\* exactly '_No results_' as summary and no CSV, whatever the columns.
C12_ZeroRowsNoResults ==
    (returned.done /\ Succeeded(result) /\ Len(result.rows) = 0) =>
        /\ returned.msg = << "_No results_" >>
        /\ returned.csv = None

\* A result of two columns and no row, formatted.
C12_Witness ==
    /\ returned.done
    /\ Succeeded(result)
    /\ Len(result.rows) = 0
    /\ Len(result.columns) = 2
    /\ returned.csv = None

\* The text s cut at every newline character.
RECURSIVE SplitLines(_)
SplitLines(s) ==
    IF \A i \in 1..Len(s) : s[i] /= "\n" THEN << s >>
    ELSE LET k == CHOOSE i \in 1..Len(s) :
                      s[i] = "\n" /\ \A j \in 1..(i - 1) : s[j] /= "\n"
         IN  << SubSeq(s, 1, k - 1) >> \o SplitLines(SubSeq(s, k + 1, Len(s)))

\* The texts of parts in order, with the character c between neighbours.
RECURSIVE Between(_, _)
Between(parts, c) ==
    IF Len(parts) = 0 THEN << >>
    ELSE IF Len(parts) = 1 THEN parts[1]
    ELSE Between(SubSeq(parts, 1, Len(parts) - 1), c)
             \o << c >> \o parts[Len(parts)]

Commas(parts) == Between(parts, ",")

\* No value of the result holds a newline character.
NoNewlineIn(a) ==
    \A i \in 1..Len(a.rows) : \A j \in 1..Len(a.rows[i]) :
        \A k \in 1..Len(a.rows[i][j].s) : a.rows[i][j].s[k] /= "\n"

\* A number below ten as text.
Dec(n) == << << "0", "1", "2", "3", "4", "5", "6", "7", "8", "9" >>[n + 1] >>

\* A value as the CSV shows it: NULL as nothing, a number in decimal, a
\* string as it is.
Shown(v) ==
    IF v = NullVal THEN << >> ELSE IF v.t = "int" THEN Dec(v.i) ELSE v.s

\* The result of the spec's example: columns [a, b], rows [[1, x], [2, NULL]].
ExampleResult ==
    [raises |-> FALSE, err |-> << >>, columns |-> << << "a" >>, << "b" >> >>,
     rows |-> << << IntVal(1), StrVal(<< "x" >>) >>,
                 << IntVal(2), NullVal >> >>,
     given |-> TRUE]

\* C13: when the backend call succeeds with n >= 1 rows over m columns, the
\* CSV is n+1 lines with one newline between neighbours and none at the
\* end: line 1 is the column names with commas between them, line i+1 the
\* values of row i with commas between them, NULL shown as nothing and
\* nothing quoted (cut at its newlines the CSV gives back exactly these n+1
\* lines, unless a value brought a newline of its own); the summary is
\* 'Returned n row(s), m column(s)'; the example gives 'a,b\n1,x\n2,'.
C13_CsvLinesAndSummary ==
    (returned.done /\ Succeeded(result) /\ Len(result.rows) >= 1) =>
        LET n == Len(result.rows)
            m == Len(result.columns)
            lines == [i \in 1..(n + 1) |->
                         IF i = 1 THEN Commas(result.columns)
                         ELSE Commas([j \in 1..m |->
                                         Shown(result.rows[i - 1][j])])]
        IN  /\ returned.csv /= None
            /\ returned.csv.s = Between(lines, "\n")
            /\ NoNewlineIn(result) => SplitLines(returned.csv.s) = lines
            /\ returned.msg =
                   << "Returned " >> \o Dec(n) \o << " row(s), " >>
                       \o Dec(m) \o << " column(s)" >>
            /\ result = ExampleResult =>
                   /\ returned.csv.s =
                          << "a", ",", "b", "\n", "1", ",", "x", "\n", "2",
                             "," >>
                   /\ returned.msg =
                          << "Returned ", "2", " row(s), ", "2",
                             " column(s)" >>

\* The example of the spec, formatted.
C13_Witness ==
    /\ returned.done
    /\ result = ExampleResult
    /\ Len(SplitLines(returned.csv.s)) = 3

\* The first k elements of s.
Prefix(s, k) == SubSeq(s, 1, k)

\* What a request with the event, prompt, acknowledgement, summary and CSV
\* of r does after the reaction when every call succeeds: the reply to an
\* empty prompt, or the post, the backend call, the edit and, with a CSV,
\* the upload.
FullSequence(r) ==
    LET e == event[r]
        th == ThreadOf(e)
    IN  IF prompt[r] = << >>
        THEN << Call("say", e.channel, NoTs, th, InstructionText, TRUE) >>
        ELSE << Call("chat_postMessage", e.channel, NoTs, th,
                     << "Working on: _" >> \o prompt[r] \o << "_" >>, TRUE),
                Call("query_claude", e.channel, NoTs, NoTs, prompt[r], TRUE),
                Call("chat_update", e.channel, ack_response[r].ts, NoTs,
                     << "*Query:* _" >> \o prompt[r] \o << "_", "\n", "\n" >>
                         \o msg[r], TRUE) >>
             \o (IF csv_content[r] /= None
                 THEN << [Call("files_upload_v2", e.channel, NoTs, th,
                               csv_content[r].s, TRUE)
                            EXCEPT !.filename = "results.csv",
                                   !.title = "Query Results"] >>
                 ELSE << >>)

\* The same sequence, cut where the exception that ended r was raised; the
\* chat call that raised is its last element.
FollowingCalls(r) ==
    LET full == FullSequence(r)
        cut == CASE exc[r].at = "none" -> Len(full)
                 [] exc[r].at \in {"say", "chat_postMessage"} -> 1
                 [] exc[r].type = "duckdb.Error" -> 2
                 [] exc[r].at = "chat_update" -> 3
                 [] exc[r].at = "files_upload_v2" -> 4
                 [] OTHER -> 0
    IN  [i \in 1..cut |->
            IF i = cut /\ exc[r].type = "SlackApiError"
            THEN [full[i] EXCEPT !.ok = FALSE]
            ELSE full[i]]

\* C14: on the mention path the reaction is attempted once, before anything
\* else, on the triggering message; its failure never ends the handler; and
\* the calls that follow it are the ones the event, the backend response and
\* the failing chat call (if any) determine, whether the reaction succeeded
\* or raised.
C14_ReactionSwallowed ==
    \A r \in Reqs :
        (r = "app_mention" /\ Started(r)) =>
            /\ Len(calls[r]) >= 1
            /\ calls[r][1].api = "reactions_add"
            /\ calls[r][1].channel = event[r].channel
            /\ calls[r][1].ts = event[r].ts
            /\ calls[r][1].text = << "eyes" >>
            /\ Len(CallsTo(r, "reactions_add")) = 1
            /\ exc[r].at /= "reactions_add"
            /\ Ended(r) => Tail(calls[r]) = FollowingCalls(r)

\* A mention whose reaction failed and whose request went on to the upload.
C14_Witness ==
    \E r \in Reqs :
        /\ r = "app_mention" /\ pc[r] = "done"
        /\ ~calls[r][1].ok
        /\ Len(calls[r]) = 5
        /\ LastCall(r).api = "files_upload_v2"

\* The options hold a startup configuration error: a token is missing, a
\* database path or the init-SQL path names no file.
StartupError(a) ==
    \/ a.bot_token \in {"None", ""}
    \/ a.app_token \in {"None", ""}
    \/ \E i \in DOMAIN a.db : ~a.db[i].exists
    \/ a.init_sql.given /\ ~a.init_sql.exists

\* Nothing was ever delivered to a handler.
NoEventHandled ==
    \A r \in Reqs : pc[r] = "idle" /\ calls[r] = << >> /\ event[r] = NoEvent

\* C15: once main has run, the process has exited if and only if its
\* options held a startup configuration error; it then exited with status 1
\* before the event loop: the shared configuration is not populated, no
\* chat app was created, no socket connection was opened and no event is
\* handled.
C15_StartupErrorExits ==
    phase /= "startup" =>
        /\ StartupError(argv) <=> phase = "exited"
        /\ phase = "exited" =>
               /\ exit_status = 1
               /\ config = << >>
               /\ slack_app = "None"
               /\ handler = "None"
               /\ user_msg = NoMessage
               /\ NoEventHandled

\* Both tokens given, the database file present, the init-SQL file missing.
C15_Witness ==
    /\ phase = "exited"
    /\ argv.bot_token = "xoxb" /\ argv.app_token = "xoxb"
    /\ Len(argv.db) = 1 /\ argv.db[1].exists
    /\ argv.init_sql.given /\ ~argv.init_sql.exists
    /\ exit_status = 1

\* The pair the executor returns for each thing the backend answers in the
\* handler model: the failure's text as error summary, the no-results
\* marker, the summary and the CSV of the two example rows.
PairFor(a) ==
    IF a.raises
    THEN << << "*Error:* ", "<grave>", "Parser Error", "<grave>" >>, None >>
    ELSE IF Len(a.rows) = 0
    THEN << << "_No results_" >>, None >>
    ELSE << << "Returned ", "2", " row(s), ", "2", " column(s)" >>,
            [none |-> FALSE,
             s |-> << "a", ",", "b", "\n", "1", ",", "x", "\n", "2", "," >>] >>

\* C16: the pair an executor call returns is determined by what the backend
\* answered for that call: two calls with the same prompt and the same
\* answer returned the same pair, and each call returned the pair of its own
\* answer, whatever calls (failed ones included) were made before or
\* meanwhile.
C16_ExecutorStateless ==
    /\ \A r1 \in Reqs, r2 \in Reqs :
           (/\ answer[r1].given /\ answer[r2].given
            /\ prompt[r1] = prompt[r2]
            /\ answer[r1] = answer[r2]) =>
               msg[r1] = msg[r2] /\ csv_content[r1] = csv_content[r2]
    /\ \A r \in Reqs :
           answer[r].given => << msg[r], csv_content[r] >> = PairFor(answer[r])

\* The mention delivery failed while its connection was set up (and left it
\* open); the message delivery, with the same prompt, made its call after
\* that and got its rows.
C16_Witness ==
    /\ exc["app_mention"].type = "duckdb.Error"
    /\ conn["app_mention"] = 1
    /\ conn["message"] = 2
    /\ prompt["app_mention"] = prompt["message"]
    /\ answer["message"].given
    /\ Len(answer["message"].rows) = 2
    /\ csv_content["message"] /= None

\* C17: the process-wide configuration is written by startup only, before
\* the chat app is created and the socket is connected: every step that
\* changes it starts in the startup phase with no app and no connection, so
\* no handler, executor or connection-construction step changes it.
C17_ConfigWrittenByStartupOnly ==
    [][config' /= config =>
           /\ phase = "startup"
           /\ slack_app = "None"
           /\ handler = "None"
           /\ NoEventHandled]_vars

\* Both deliveries were handled to the end under a configuration with a
\* database and init SQL, each with a connection of its own.
C17_Witness ==
    /\ phase = "listening"
    /\ DOMAIN config.databases /= {}
    /\ config.init_sql /= None
    /\ config.init_sql.s /= << >>
    /\ \A r \in Reqs : pc[r] = "done" /\ conn[r] /= 0

\* Stands for "the timestamp of the acknowledgement the request posted".
OwnAck == [by |-> "own ack", n |-> 0]

\* The calls of r other than the reaction, the edit's target named
\* relative to r (the two handlers get different timestamps from Slack for
\* their acknowledgements).
Normalised(r) ==
    LET e == Effects(r)
    IN  [i \in 1..Len(e) |->
            IF e[i].api = "chat_update" /\ e[i].ts = ack_response[r].ts
            THEN [e[i] EXCEPT !.ts = OwnAck]
            ELSE e[i]]

InFlight(r) == Started(r) /\ ~Ended(r)

\* C19: under every interleaving of the handled events, each executor call
\* has a connection of its own, which stays open until that call closes it;
\* the open connections are never more than the requests in flight; each
\* request edits only the placeholder it posted itself, and uploads only the
\* CSV its own backend call returned.
C19_RequestsDoNotInterfere ==
    /\ \A r1 \in Reqs, r2 \in Reqs :
           (r1 /= r2 /\ conn[r1] /= 0) => conn[r1] /= conn[r2]
    /\ opened = Cardinality({r \in Reqs : conn[r] /= 0})
    /\ \A r \in Reqs : pc[r] = "execute" => conn[r] \in connections
    /\ Cardinality(connections) <= Cardinality({r \in Reqs : InFlight(r)})
    /\ \A r1 \in Reqs, r2 \in Reqs :
           (r1 /= r2 /\ ack_response[r1].ts /= NoTs) =>
               ack_response[r1].ts /= ack_response[r2].ts
    /\ \A r \in Reqs :
           \A i \in 1..Len(calls[r]) :
               /\ calls[r][i].api = "chat_update" =>
                      /\ calls[r][i].ts = ack_response[r].ts
                      /\ calls[r][i].ts /= NoTs
               /\ calls[r][i].api = "files_upload_v2" =>
                      /\ answer[r].given
                      /\ calls[r][i].text = PairFor(answer[r])[2].s

\* C20: every outbound chat call of a request uses the channel of its
\* event; the acknowledgement post, the upload and the instructional reply
\* are placed in the event's thread when it has one, else under the
\* triggering message; the reaction targets the triggering message; the
\* edit targets the acknowledgement the request posted, never the
\* triggering message.
C20_ChannelAndThread ==
    \A r \in Reqs :
        \A i \in 1..Len(calls[r]) :
            LET c == calls[r][i]
                e == event[r]
            IN  /\ c.api /= "query_claude" => c.channel = e.channel
                /\ c.api \in {"chat_postMessage", "files_upload_v2", "say"} =>
                       /\ e.thread_ts /= NoTs => c.thread_ts = e.thread_ts
                       /\ e.thread_ts = NoTs => c.thread_ts = e.ts
                /\ c.api = "reactions_add" => c.ts = e.ts
                /\ c.api = "chat_update" =>
                       /\ c.ts = ack_response[r].ts
                       /\ c.ts.by = "bot"
                       /\ c.ts /= e.ts
                       /\ messages[c.ts.n].channel = e.channel

\* A mention written in a thread, handled up to the upload, and the message
\* delivery of it acknowledged in the same thread.
C20_Witness ==
    /\ event["app_mention"].thread_ts = ThreadRootTs
    /\ event["app_mention"].channel = "C2"
    /\ pc["app_mention"] = "done"
    /\ Len(CallsTo("app_mention", "files_upload_v2")) = 1
    /\ Len(CallsTo("app_mention", "chat_update")) = 1
    /\ Len(CallsTo("message", "chat_postMessage")) = 1

====
